---- MODULE Spec2Model ----
(***************************************************************************)
(* Model of data/clean_csv.py: a script that loads a CSV file into a       *)
(* pandas DataFrame, parses two date columns, strips whitespace, drops     *)
(* duplicate rows, fills missing values of four columns and writes the     *)
(* result to a second CSV file.                                            *)
(*                                                                         *)
(* Text is a sequence of one-character strings, so that strip(), the       *)
(* strptime pattern and the rendering of numbers and dates act on          *)
(* characters.  A CSV file is its header (a sequence of names) and its     *)
(* records (each a sequence of fields, all text).  A DataFrame is its      *)
(* column names, its index labels and its rows of typed cells.             *)
(***************************************************************************)
EXTENDS Integers, Sequences, FiniteSets, TLC

\* The largest number of records of the input file.
MaxRows == 3

VARIABLES inputFile, df, outputFile, stdout, pc, err

vars == <<inputFile, df, outputFile, stdout, pc, err>>

----------------------------------------------------------------------------
(* Characters and text *)

DigitChars == {"0", "1", "2", "3", "4", "5", "6", "7", "8", "9"}

IsDigit(c) == c \in DigitChars

IsSpace(c) == c = " "

DigitVal(c) ==
  CASE c = "0" -> 0 [] c = "1" -> 1 [] c = "2" -> 2 [] c = "3" -> 3
    [] c = "4" -> 4 [] c = "5" -> 5 [] c = "6" -> 6 [] c = "7" -> 7
    [] c = "8" -> 8 [] c = "9" -> 9

DigitChar(n) ==
  CASE n = 0 -> "0" [] n = 1 -> "1" [] n = 2 -> "2" [] n = 3 -> "3"
    [] n = 4 -> "4" [] n = 5 -> "5" [] n = 6 -> "6" [] n = 7 -> "7"
    [] n = 8 -> "8" [] n = 9 -> "9"

\* str.lstrip(), str.rstrip() and str.strip() of Python.
RECURSIVE LStrip(_)
LStrip(s) == IF s # <<>> /\ IsSpace(Head(s)) THEN LStrip(Tail(s)) ELSE s

RECURSIVE RStrip(_)
RStrip(s) ==
  IF s # <<>> /\ IsSpace(s[Len(s)]) THEN RStrip(SubSeq(s, 1, Len(s) - 1)) ELSE s

StripLeftOnly(s) == LStrip(s)

Strip(s) == RStrip(LStrip(s))

\* The value of a sequence of digits, and the digits of a number.
RECURSIVE DigitsToNat(_)
DigitsToNat(s) ==
  IF s = <<>> THEN 0
  ELSE 10 * DigitsToNat(SubSeq(s, 1, Len(s) - 1)) + DigitVal(s[Len(s)])

RECURSIVE NatToDigits(_)
NatToDigits(n) ==
  IF n < 10 THEN <<DigitChar(n)>>
  ELSE Append(NatToDigits(n \div 10), DigitChar(n % 10))

\* n written with at least w digits, zero-padded on the left.
RECURSIVE ZeroPad(_, _)
ZeroPad(s, w) == IF Len(s) >= w THEN s ELSE ZeroPad(<<"0">> \o s, w)

----------------------------------------------------------------------------
(* Cells of a DataFrame: missing (NaN, NaT), text, number, date *)

NoDate == <<0, 0, 0>>

Missing == [kind |-> "missing", text |-> <<>>, num |-> 0, ymd |-> NoDate]

Text(s) == [kind |-> "text", text |-> s, num |-> 0, ymd |-> NoDate]

Num(n) == [kind |-> "num", text |-> <<>>, num |-> n, ymd |-> NoDate]

Date(d) == [kind |-> "date", text |-> <<>>, num |-> 0, ymd |-> d]

IsMissing(c) == c.kind = "missing"

----------------------------------------------------------------------------
(* Files *)

\* A path at which no file exists.
NoFile == [exists |-> FALSE, header |-> <<>>, records |-> <<>>]

CsvFile(h, r) == [exists |-> TRUE, header |-> h, records |-> r]

----------------------------------------------------------------------------
(* pd.read_csv: the header gives the column names as written; a column     *)
(* whose non-empty fields are all numbers is numeric, any other column     *)
(* keeps its fields as text; an empty field is missing (NaN) in both.      *)

IsNumericField(f) ==
  LET t == Strip(f) IN t # <<>> /\ \A k \in 1..Len(t) : IsDigit(t[k])

IsNumericColumn(records, j) ==
  \A i \in 1..Len(records) :
    records[i][j] = <<>> \/ IsNumericField(records[i][j])

ReadCell(records, i, j) ==
  IF records[i][j] = <<>> THEN Missing
  ELSE IF IsNumericColumn(records, j)
       THEN Num(DigitsToNat(Strip(records[i][j])))
       ELSE Text(records[i][j])

\* The DataFrame of a file: a RangeIndex 0..n-1 labels the rows.
ReadCsv(file) ==
  [columns |-> file.header,
   index   |-> [i \in 1..Len(file.records) |-> i - 1],
   data    |-> [i \in 1..Len(file.records) |->
                 [j \in 1..Len(file.header) |-> ReadCell(file.records, i, j)]]]

EmptyFrame == [columns |-> <<>>, index |-> <<>>, data |-> <<>>]

\* A lookup that ignores whitespace around the labels.
ColumnLocStripped(columns, name) ==
  IF \E j \in 1..Len(columns) : Strip(columns[j]) = name
  THEN CHOOSE j \in 1..Len(columns) : Strip(columns[j]) = name
  ELSE 0

\* df[name]: the position of the column labelled name, 0 when there is
\* none (a KeyError).
ColumnLoc(columns, name) ==
  IF \E j \in 1..Len(columns) : columns[j] = name
  THEN CHOOSE j \in 1..Len(columns) : columns[j] = name
  ELSE 0

----------------------------------------------------------------------------
(* pd.to_datetime(column, format='%m/%d/%Y') *)

\* The length of the prefix of s that %m matches: 1[0-2] | 0[1-9] | [1-9].
MonthLen(s) ==
  IF Len(s) >= 2 /\ ( (s[1] = "1" /\ s[2] \in {"0", "1", "2"})
                   \/ (s[1] = "0" /\ s[2] \in DigitChars \ {"0"}) )
  THEN 2
  ELSE IF Len(s) >= 1 /\ s[1] \in DigitChars \ {"0"} THEN 1 ELSE 0

\* The length of the prefix of s that %d matches:
\* 3[0-1] | [1-2]\d | 0[1-9] | [1-9] | " "[1-9].
DayLen(s) ==
  IF Len(s) >= 2 /\ ( (s[1] = "3" /\ s[2] \in {"0", "1"})
                   \/ (s[1] \in {"1", "2"} /\ IsDigit(s[2]))
                   \/ (s[1] = "0" /\ s[2] \in DigitChars \ {"0"}) )
  THEN 2
  ELSE IF Len(s) >= 1 /\ s[1] \in DigitChars \ {"0"} THEN 1
  ELSE IF Len(s) >= 2 /\ s[1] = " " /\ s[2] \in DigitChars \ {"0"} THEN 2
  ELSE 0

\* The length of the prefix of s that %Y matches: four digits.
YearLen(s) ==
  IF Len(s) >= 4 /\ \A k \in 1..4 : IsDigit(s[k]) THEN 4 ELSE 0

IsLeap(y) == (y % 4 = 0 /\ y % 100 # 0) \/ y % 400 = 0

DaysInMonth(y, m) ==
  IF m \in {4, 6, 9, 11} THEN 30
  ELSE IF m = 2 THEN (IF IsLeap(y) THEN 29 ELSE 28)
  ELSE 31

Drop(s, n) == SubSeq(s, n + 1, Len(s))

NoMatch == [ok |-> FALSE, ymd |-> NoDate]

NoGroups == [ok |-> FALSE, m |-> 0, d |-> 0, Y |-> 0]

\* The match of the pattern of %m/%d/%Y against the whole of s (no text
\* before it, none left after it), and the numbers of its groups m, d, Y.
MatchFormat(s) ==
  LET ml == MonthLen(s)
      s1 == Drop(s, ml)
  IN IF ml = 0 \/ s1 = <<>> \/ Head(s1) # "/" THEN NoGroups
     ELSE
       LET s2 == Tail(s1)
           dl == DayLen(s2)
           s3 == Drop(s2, dl)
       IN IF dl = 0 \/ s3 = <<>> \/ Head(s3) # "/" THEN NoGroups
          ELSE
            LET s4 == Tail(s3)
                yl == YearLen(s4)
            IN IF yl = 0 \/ Len(s4) # yl THEN NoGroups
               ELSE [ok |-> TRUE,
                     m  |-> DigitsToNat(SubSeq(s, 1, ml)),
                     d  |-> DigitsToNat(LStrip(SubSeq(s2, 1, dl))),
                     Y  |-> DigitsToNat(s4)]

\* The groups read day first, as the format %d/%m/%Y would.
StrptimeDayFirst(s) ==
  LET g == MatchFormat(s) IN
  IF ~g.ok \/ g.d > 12 \/ g.m > DaysInMonth(g.Y, g.d) THEN NoMatch
  ELSE [ok |-> TRUE, ymd |-> <<g.Y, g.d, g.m>>]

\* strptime with the format %m/%d/%Y: the text must match and the day must
\* exist in the month.
Strptime(s) ==
  LET g == MatchFormat(s) IN
  IF ~g.ok \/ g.d > DaysInMonth(g.Y, g.m) THEN NoMatch
  ELSE [ok |-> TRUE, ymd |-> <<g.Y, g.m, g.d>>]

\* What to_csv writes for a cell: nothing for a missing cell, the text of
\* a text cell, the digits of a number, YYYY-MM-DD for a date.
RenderDate(d) ==
  ZeroPad(NatToDigits(d[1]), 4) \o <<"-">> \o ZeroPad(NatToDigits(d[2]), 2)
    \o <<"-">> \o ZeroPad(NatToDigits(d[3]), 2)

RenderCell(c) ==
  CASE c.kind = "missing" -> <<>>
    [] c.kind = "text"    -> c.text
    [] c.kind = "num"     -> NatToDigits(c.num)
    [] c.kind = "date"    -> RenderDate(c.ymd)

\* The text strptime is given for a cell: a text cell's text, str() of
\* any other value.
CellText(c) == IF c.kind = "text" THEN c.text ELSE RenderCell(c)

\* A missing cell (NaN) converts to a missing date (NaT) without a parse.
CanConvert(c) == IsMissing(c) \/ Strptime(CellText(c)).ok

ConvertCell(c) == IF IsMissing(c) THEN Missing ELSE Date(Strptime(CellText(c)).ymd)

\* to_datetime with errors='coerce': a cell that does not parse becomes a
\* missing date.
ToDatetimeCoerce(d, name) ==
  LET j == ColumnLoc(d.columns, name) IN
  IF j = 0 THEN [error |-> "KeyError", frame |-> d]
  ELSE [error |-> "none",
        frame |-> [d EXCEPT !.data =
                     [i \in 1..Len(d.data) |->
                        [d.data[i] EXCEPT ![j] =
                           IF CanConvert(d.data[i][j])
                           THEN ConvertCell(d.data[i][j]) ELSE Missing]]]]

\* df[name] = pd.to_datetime(df[name], format='%m/%d/%Y')
ToDatetime(d, name) ==
  LET j == ColumnLoc(d.columns, name) IN
  IF j = 0 THEN [error |-> "KeyError", frame |-> d]
  ELSE IF \E i \in 1..Len(d.data) : ~CanConvert(d.data[i][j])
       THEN [error |-> "ValueError", frame |-> d]
       ELSE [error |-> "none",
             frame |-> [d EXCEPT !.data =
                          [i \in 1..Len(d.data) |->
                             [d.data[i] EXCEPT ![j] = ConvertCell(d.data[i][j])]]]]

----------------------------------------------------------------------------
(* The strip, drop_duplicates, fillna and to_csv steps as functions of the *)
(* DataFrame                                                               *)

\* df.columns = [col.strip() for col in df.columns]
StripColumns(d) ==
  [d EXCEPT !.columns = [j \in 1..Len(d.columns) |-> Strip(d.columns[j])]]

\* lambda x: x.strip() if isinstance(x, str) else x
StripCell(c) == IF c.kind = "text" THEN Text(Strip(c.text)) ELSE c

\* df = df.applymap(...)
ApplyMap(d) ==
  [d EXCEPT !.data = [i \in 1..Len(d.data) |->
                        [j \in 1..Len(d.data[i]) |-> StripCell(d.data[i][j])]]]

\* DataFrame.duplicated(): row i repeats an earlier row in every column
\* (missing cells count as equal to each other).
Duplicated(d, i) == \E k \in 1..(i - 1) : d.data[k] = d.data[i]

RECURSIVE KeptFrom(_, _)
KeptFrom(d, i) ==
  IF i > Len(d.data) THEN <<>>
  ELSE (IF Duplicated(d, i) THEN <<>> ELSE <<i>>) \o KeptFrom(d, i + 1)

\* drop_duplicates(keep='last'): the last row of each group is kept.
RECURSIVE KeptLastFrom(_, _)
KeptLastFrom(d, i) ==
  IF i > Len(d.data) THEN <<>>
  ELSE (IF \E k \in (i + 1)..Len(d.data) : d.data[k] = d.data[i]
        THEN <<>> ELSE <<i>>) \o KeptLastFrom(d, i + 1)

DropDuplicatesKeepLast(d) ==
  LET kept == KeptLastFrom(d, 1) IN
  [d EXCEPT !.index = [k \in 1..Len(kept) |-> d.index[kept[k]]],
            !.data  = [k \in 1..Len(kept) |-> d.data[kept[k]]]]

\* df = df.drop_duplicates(): the rows that are not duplicated, in their
\* order, each under the index label it had.
DropDuplicates(d) ==
  LET kept == KeptFrom(d, 1) IN
  [d EXCEPT !.index = [k \in 1..Len(kept) |-> d.index[kept[k]]],
            !.data  = [k \in 1..Len(kept) |-> d.data[kept[k]]]]

\* Column names of the script.
OrderDate == <<"O", "r", "d", "e", "r", " ", "D", "a", "t", "e">>

ShipDate == <<"S", "h", "i", "p", " ", "D", "a", "t", "e">>

Sales == <<"S", "a", "l", "e", "s">>

Quantity == <<"Q", "u", "a", "n", "t", "i", "t", "y">>

Discount == <<"D", "i", "s", "c", "o", "u", "n", "t">>

Profit == <<"P", "r", "o", "f", "i", "t">>

\* The keys of the dict given to fillna; each maps to 0.
FillColumns == {Sales, Quantity, Discount, Profit}

\* fillna(0): every column is filled.
FillCellAnyColumn(name, c) == IF IsMissing(c) THEN Num(0) ELSE c

FillCell(name, c) ==
  IF name \in FillColumns /\ IsMissing(c) THEN Num(0) ELSE c

\* df = df.fillna({...})
FillNa(d) ==
  [d EXCEPT !.data = [i \in 1..Len(d.data) |->
                        [j \in 1..Len(d.data[i]) |->
                           FillCell(d.columns[j], d.data[i][j])]]]

\* df.to_csv(path, index=False): a header of the column names, one record
\* per row, no index column.
ToCsv(d) ==
  CsvFile(d.columns,
          [i \in 1..Len(d.data) |->
             [j \in 1..Len(d.data[i]) |-> RenderCell(d.data[i][j])]])

\* The printed line, without the check mark that begins it.
ConfirmationMessage == "Clean CSV saved as: data/superstore_orders_cleaned.csv"

----------------------------------------------------------------------------
(* The input files of the model *)

Region == <<"R", "e", "g", "i", "o", "n">>

Tax == <<"T", "a", "x">>

Padded(name) == <<" ">> \o name \o <<" ">>

\* Headers: the six names of the script clean, and with whitespace around
\* one name; a numeric column that fillna does not name.
Headers ==
  { <<OrderDate, ShipDate, Sales, Region>>,
    <<<<" ">> \o OrderDate, ShipDate, Sales, Region>>,
    <<OrderDate, ShipDate \o <<" ">>, Sales, Region>>,
    <<OrderDate, ShipDate, Padded(Sales), Region>>,
    <<OrderDate, ShipDate, Quantity, Padded(Region)>>,
    <<OrderDate, ShipDate, <<" ">> \o Discount, Region>>,
    <<OrderDate, ShipDate, Profit \o <<" ">>, Region>>,
    <<OrderDate, ShipDate, Tax, Region>> }

Jan02 == <<"0", "1", "/", "0", "2", "/", "2", "0", "2", "2">>

Jan05 == <<"0", "1", "/", "0", "5", "/", "2", "0", "2", "2">>

Mar15 == <<"0", "3", "/", "1", "5", "/", "2", "0", "2", "3">>

Mar05 == <<"0", "3", "/", "0", "5", "/", "2", "0", "2", "3">>

Mar5Short == <<"3", "/", "5", "/", "2", "0", "2", "3">>

Mar15Padded == <<" ">> \o Mar15

Jan05Iso == <<"2", "0", "2", "2", "-", "0", "1", "-", "0", "5">>

Feb30 == <<"0", "2", "/", "3", "0", "/", "2", "0", "2", "3">>

Empty == <<>>

\* Records that to_datetime accepts: rows that differ in a missing number,
\* in whitespace around a text, in a missing text; two spellings of one
\* date; a missing date (an empty field is a missing cell).
GoodRecords ==
  { <<Jan02, Jan05, Empty, <<"W">>>>,
    <<Jan02, Jan05, <<"0">>, <<"W">>>>,
    <<Jan02, Jan05, <<"0">>, <<" ", "W">>>>,
    <<Jan02, Jan05, <<"7">>, Empty>>,
    <<Jan02, Jan05, Empty, Empty>>,
    <<Mar15, Mar05, <<"7">>, <<"W", " ">>>>,
    <<Mar15, Mar5Short, <<"7">>, <<"W", " ">>>>,
    <<Empty, Jan05, <<"7">>, <<"W">>>> }

\* Records that to_datetime rejects: whitespace before the date, another
\* pattern, a day the month does not have.
BadRecords ==
  { <<Mar15Padded, Jan05, <<"7">>, <<"W">>>>,
    <<Jan02, Jan05Iso, <<"7">>, <<"W">>>>,
    <<Jan02, Feb30, <<"7">>, <<"W">>>> }

Records == GoodRecords \cup BadRecords

\* The input path holds no file, or a file of at most MaxRows records.
IsInputFile(f) ==
  \/ f = NoFile
  \/ \E n \in 0..MaxRows : \E h \in Headers : \E r \in [1..n -> Records] :
       f = CsvFile(h, r)

----------------------------------------------------------------------------
(* The script, one action per statement *)

Init ==
  /\ IsInputFile(inputFile)
  /\ df = EmptyFrame
  /\ outputFile = NoFile
  /\ stdout = <<>>
  /\ pc = "read_csv"
  /\ err = "none"

\* An unhandled exception ends the process.
Raise(e) ==
  /\ pc' = "failed"
  /\ err' = e
  /\ UNCHANGED <<inputFile, df, outputFile, stdout>>

Advance(next, frame) ==
  /\ pc' = next
  /\ df' = frame
  /\ UNCHANGED <<inputFile, outputFile, stdout, err>>

\* line 4
Load ==
  /\ pc = "read_csv"
  /\ IF inputFile.exists
     THEN Advance("to_datetime_order", ReadCsv(inputFile))
     ELSE Raise("FileNotFoundError")

\* line 7
ParseOrderDate ==
  /\ pc = "to_datetime_order"
  /\ LET r == ToDatetime(df, OrderDate) IN
     IF r.error = "none" THEN Advance("to_datetime_ship", r.frame)
     ELSE Raise(r.error)

\* line 8
ParseShipDate ==
  /\ pc = "to_datetime_ship"
  /\ LET r == ToDatetime(df, ShipDate) IN
     IF r.error = "none" THEN Advance("strip_columns", r.frame)
     ELSE Raise(r.error)

\* line 11
TrimColumns ==
  /\ pc = "strip_columns"
  /\ Advance("applymap", StripColumns(df))

\* The duplicates dropped before the cells are stripped (lines 12 and 15
\* exchanged).
TrimCellsAfterDeduplicate ==
  /\ pc = "applymap"
  /\ Advance("fillna", ApplyMap(DropDuplicates(df)))

\* line 12
TrimCells ==
  /\ pc = "applymap"
  /\ Advance("drop_duplicates", ApplyMap(df))

\* line 15
Deduplicate ==
  /\ pc = "drop_duplicates"
  /\ Advance("fillna", DropDuplicates(df))

\* lines 18-23
FillMissing ==
  /\ pc = "fillna"
  /\ Advance("to_csv", FillNa(df))

\* The write in a try block that swallows the error.
PersistSwallowsError ==
  /\ pc = "to_csv"
  /\ \E writable \in BOOLEAN :
       /\ outputFile' = IF writable THEN ToCsv(df) ELSE outputFile
       /\ pc' = "print"
       /\ UNCHANGED <<inputFile, df, stdout, err>>

\* line 26: the file is written, or cannot be (OSError) when the output
\* path is not writable.
Persist ==
  /\ pc = "to_csv"
  /\ \E writable \in BOOLEAN :
       IF writable
       THEN /\ outputFile' = ToCsv(df)
            /\ pc' = "print"
            /\ UNCHANGED <<inputFile, df, stdout, err>>
       ELSE Raise("OSError")

\* line 27
Confirm ==
  /\ pc = "print"
  /\ stdout' = Append(stdout, ConfirmationMessage)
  /\ pc' = "done"
  /\ UNCHANGED <<inputFile, df, outputFile, err>>

Next ==
  \/ Load
  \/ ParseOrderDate
  \/ ParseShipDate
  \/ TrimColumns
  \/ TrimCells
  \/ Deduplicate
  \/ FillMissing
  \/ Persist
  \/ Confirm

Spec == Init /\ [][Next]_vars

----------------------------------------------------------------------------
(* A whole run as a function of the input file: the error it ends with and *)
(* the file it writes (the output path being writable)                     *)

Failure(e) == [error |-> e, file |-> NoFile]

CleanCsv(file) ==
  IF ~file.exists THEN Failure("FileNotFoundError")
  ELSE
    LET a == ToDatetime(ReadCsv(file), OrderDate) IN
    IF a.error # "none" THEN Failure(a.error)
    ELSE
      LET b == ToDatetime(a.frame, ShipDate) IN
      IF b.error # "none" THEN Failure(b.error)
      ELSE [error |-> "none",
            file  |-> ToCsv(FillNa(DropDuplicates(ApplyMap(StripColumns(b.frame)))))]

----------------------------------------------------------------------------
(* Vocabulary of the properties *)

In == inputFile.records

InRows == 1..Len(inputFile.records)

InColumns == 1..Len(inputFile.header)

OutRows == 1..Len(df.index)

\* The input record that row k of the table was loaded from.
Origin(k) == df.index[k] + 1

Survivors == { Origin(k) : k \in OutRows }

Min(S) == CHOOSE x \in S : \A y \in S : x <= y

\* Record i with every field stripped of surrounding whitespace.
TrimmedRecord(i) == [c \in InColumns |-> Strip(In[i][c])]

Written == pc \in {"print", "done"}

----------------------------------------------------------------------------
(* C1: after a successful run, the table that was written (the table as    *)
(* it is after the fill step) holds no two rows that are equal in every    *)
(* column.  The code drops duplicates before it fills, so two rows that    *)
(* differ only in a missing and a zero number are both kept and are equal  *)
(* once filled.                                                            *)
C1_NoIdenticalRows ==
  Written =>
    \A i \in OutRows : \A k \in OutRows : i # k => df.data[i] # df.data[k]

----------------------------------------------------------------------------
(* C2, as stated: of the input rows that are equal in every column once    *)
(* trimmed, exactly one appears in the output, the first of them.          *)
C2_FirstOfTrimEqualSurvives ==
  pc = "done" =>
    \A i \in InRows : \A j \in InRows :
      (i < j /\ TrimmedRecord(i) = TrimmedRecord(j)) =>
        LET g == { k \in InRows : TrimmedRecord(k) = TrimmedRecord(i) }
        IN Survivors \cap g = {Min(g)}

(* C2, amended: rows are compared by the values they denote once loaded,   *)
(* parsed and trimmed (dates as calendar dates, numbers as numbers, text   *)
(* trimmed), which are the rows of the table when the deduplicate step     *)
(* starts.  Of every group of input rows that denote the same values       *)
(* exactly one appears in the output, the first of the group; rows equal   *)
(* once trimmed are in one group; the surviving rows keep their input      *)
(* order, one output record each.                                          *)
C2_BeforeDeduplicate ==
  pc = "drop_duplicates" =>
    /\ df.index = [i \in InRows |-> i - 1]
    /\ DOMAIN df.data = InRows
    /\ \A i \in InRows : \A j \in InRows :
         TrimmedRecord(i) = TrimmedRecord(j) => df.data[i] = df.data[j]

C2_DeduplicateStep ==
  pc = "drop_duplicates" =>
    LET kept == { df'.index[k] + 1 : k \in DOMAIN df'.index } IN
    /\ \A i \in InRows :
         LET g == { k \in InRows : df.data[k] = df.data[i] }
         IN kept \cap g = {Min(g)}
    /\ \A k \in DOMAIN df'.index : \A l \in DOMAIN df'.index :
         k < l => df'.index[k] < df'.index[l]
    /\ DOMAIN df'.data = DOMAIN df'.index
    /\ \A k \in DOMAIN df'.index : df'.data[k] = df.data[df'.index[k] + 1]

C2_AfterDeduplicate ==
  /\ pc \in {"fillna", "to_csv", "print"} => df'.index = df.index
  /\ pc' = "done" => Len(outputFile'.records) = Len(df'.index)

\* C2, amended: the first row of every group of equal values, and it only,
\* survives the deduplicate step and reaches the output, in input order.
C2_FirstOfEqualValuesSurvives ==
  /\ [] C2_BeforeDeduplicate
  /\ [][C2_DeduplicateStep /\ C2_AfterDeduplicate]_vars

\* Two records that differ only in whitespace, the second one dropped, and
\* a third record kept.
C2_Witness ==
  /\ pc = "done"
  /\ \E i \in InRows : \E j \in InRows :
       /\ i < j
       /\ In[i] # In[j]
       /\ TrimmedRecord(i) = TrimmedRecord(j)
       /\ i \in Survivors
       /\ j \notin Survivors
  /\ Cardinality(Survivors) >= 2

----------------------------------------------------------------------------
(* C3: in every row of the output, a cell of Sales, Quantity, Discount or  *)
(* Profit that was missing in the input is 0 and a cell of any other       *)
(* column that was missing in the input is still missing; the fill step    *)
(* changes no cell that was not missing (and no name, no index label).     *)
C3_FilledCells ==
  pc = "done" =>
    \A k \in OutRows : \A c \in InColumns :
      In[Origin(k)][c] = <<>> =>
        outputFile.records[k][c] =
          (IF Strip(inputFile.header[c]) \in FillColumns THEN <<"0">> ELSE <<>>)

C3_FillStep ==
  pc = "fillna" =>
    /\ df'.columns = df.columns
    /\ df'.index = df.index
    /\ DOMAIN df'.data = DOMAIN df.data
    /\ \A i \in DOMAIN df.data :
         /\ DOMAIN df'.data[i] = DOMAIN df.data[i]
         /\ \A j \in DOMAIN df.data[i] :
              ~IsMissing(df.data[i][j]) => df'.data[i][j] = df.data[i][j]

\* C3: missing cells of the four columns are written as 0, other missing
\* cells stay missing, and the fill step changes no cell that is not missing.
C3_FillOnlyMissingOfFourColumns == [] C3_FilledCells /\ [][C3_FillStep]_vars

\* A run that filled a missing number, kept a missing text and kept a
\* number that was not missing.
C3_Witness ==
  /\ pc = "done"
  /\ \E k \in OutRows : \E c \in InColumns : \E b \in InColumns :
       /\ Strip(inputFile.header[c]) \in FillColumns
       /\ In[Origin(k)][c] = <<>>
       /\ outputFile.records[k][c] = <<"0">>
       /\ Strip(inputFile.header[b]) \notin FillColumns
       /\ In[Origin(k)][b] = <<>>
       /\ outputFile.records[k][b] = <<>>
  /\ \E k \in OutRows : \E c \in InColumns :
       /\ Strip(inputFile.header[c]) \in FillColumns
       /\ outputFile.records[k][c] = <<"7">>

----------------------------------------------------------------------------
(* Vocabulary of the date properties *)

\* The input columns whose name, stripped, is that of a date column.
DateColumns ==
  { c \in InColumns : Strip(inputFile.header[c]) \in {OrderDate, ShipDate} }

AllDigits(f, from, to) == \A k \in from..to : IsDigit(f[k])

\* The shape month/day/4-digit-year: one or two digits, a slash, one or two
\* digits, a slash, four digits, and nothing else.
MatchesPattern(f) ==
  \E a \in 1..2 : \E b \in 1..2 :
    /\ Len(f) = a + b + 6
    /\ AllDigits(f, 1, a)
    /\ f[a + 1] = "/"
    /\ AllDigits(f, a + 2, a + b + 1)
    /\ f[a + b + 2] = "/"
    /\ AllDigits(f, a + b + 3, a + b + 6)

\* The shape MM/DD/YYYY.
IsMMDDYYYY(f) ==
  /\ Len(f) = 10
  /\ AllDigits(f, 1, 2) /\ f[3] = "/" /\ AllDigits(f, 4, 5) /\ f[6] = "/"
  /\ AllDigits(f, 7, 10)

\* The run is at a step before the trim step, or has failed; it has written
\* and printed nothing.
StoppedAtParse ==
  /\ pc \in {"read_csv", "to_datetime_order", "to_datetime_ship", "failed"}
  /\ pc = "failed" => err \in {"ValueError", "KeyError"}
  /\ outputFile = NoFile
  /\ stdout = <<>>
  /\ pc # "read_csv" => df.columns = inputFile.header

----------------------------------------------------------------------------
----------------------------------------------------------------------------
(* C5: for every input row, a date cell that is a valid MM/DD/YYYY date    *)
(* is, in the output, the same calendar date as YYYY-MM-DD (month and day  *)
(* not swapped); the parse step changes no value of another column.        *)
C5_DateRewritten ==
  pc = "done" =>
    \A k \in OutRows : \A c \in DateColumns :
      LET f == In[Origin(k)][c] IN
      IsMMDDYYYY(f) =>
        outputFile.records[k][c] =
          <<f[7], f[8], f[9], f[10], "-", f[1], f[2], "-", f[4], f[5]>>

C5_ParseStep ==
  (pc \in {"to_datetime_order", "to_datetime_ship"} /\ pc' # "failed") =>
    LET name == IF pc = "to_datetime_order" THEN OrderDate ELSE ShipDate IN
    /\ df'.columns = df.columns
    /\ df'.index = df.index
    /\ DOMAIN df'.data = DOMAIN df.data
    /\ \A i \in DOMAIN df.data :
         /\ DOMAIN df'.data[i] = DOMAIN df.data[i]
         /\ \A j \in DOMAIN df.data[i] :
              df.columns[j] # name => df'.data[i][j] = df.data[i][j]

\* C5: valid MM/DD/YYYY cells are written as the same day in YYYY-MM-DD,
\* and a parse step changes the cells of its own column only.
C5_DatesAsIsoSameDay == [] C5_DateRewritten /\ [][C5_ParseStep]_vars

\* An output row whose month and day differ and are both at most 12.
C5_Witness ==
  /\ pc = "done"
  /\ \E k \in OutRows :
       /\ In[Origin(k)][1] = Jan02
       /\ outputFile.records[k][1] =
            <<"2", "0", "2", "2", "-", "0", "1", "-", "0", "2">>

----------------------------------------------------------------------------
(* C6: after a successful run no column name and no text cell of the       *)
(* output, of any column, has leading or trailing whitespace; the trim     *)
(* step leaves the cells that are numbers, dates or missing as they are.   *)
IsTrimmed(t) == t = <<>> \/ (~IsSpace(t[1]) /\ ~IsSpace(t[Len(t)]))

C6_OutputTrimmed ==
  pc = "done" =>
    /\ \A c \in 1..Len(outputFile.header) : IsTrimmed(outputFile.header[c])
    /\ \A k \in 1..Len(outputFile.records) :
         \A c \in 1..Len(outputFile.records[k]) :
           IsTrimmed(outputFile.records[k][c])
    /\ \A k \in OutRows : \A c \in 1..Len(df.data[k]) :
         df.data[k][c].kind = "text" => IsTrimmed(df.data[k][c].text)

C6_TrimStep ==
  pc \in {"strip_columns", "applymap"} =>
    /\ df'.index = df.index
    /\ DOMAIN df'.data = DOMAIN df.data
    /\ \A i \in DOMAIN df.data :
         /\ DOMAIN df'.data[i] = DOMAIN df.data[i]
         /\ \A j \in DOMAIN df.data[i] :
              df.data[i][j].kind # "text" => df'.data[i][j] = df.data[i][j]

\* C6: every name and text cell of the output is trimmed, and the trim
\* steps change text cells only.
C6_WhitespaceTrimmedEverywhere == [] C6_OutputTrimmed /\ [][C6_TrimStep]_vars

\* A successful run whose input had whitespace around a column name other
\* than the six, and after a text of such a column.
C6_Witness ==
  /\ pc = "done"
  /\ inputFile.header[4] = Padded(Region)
  /\ outputFile.header[4] = Region
  /\ \E k \in OutRows :
       /\ In[Origin(k)][4] = <<"W", " ">>
       /\ outputFile.records[k][4] = <<"W">>

----------------------------------------------------------------------------
(* C7: running the cleaner on its own output, the two date columns written *)
(* back as MM/DD/YYYY, succeeds and gives a table identical to the first   *)
(* output.  It fails on the code because of the rows C1 is about: the      *)
(* first output holds identical rows, which the second run drops.          *)

IsIsoDate(f) ==
  /\ Len(f) = 10
  /\ AllDigits(f, 1, 4) /\ f[5] = "-" /\ AllDigits(f, 6, 7) /\ f[8] = "-"
  /\ AllDigits(f, 9, 10)

\* YYYY-MM-DD written as MM/DD/YYYY; any other field as it is.
AsInputDate(f) ==
  IF IsIsoDate(f)
  THEN <<f[6], f[7], "/", f[9], f[10], "/", f[1], f[2], f[3], f[4]>>
  ELSE f

ReExpressed(file) ==
  [file EXCEPT !.records =
     [i \in 1..Len(file.records) |->
        [c \in 1..Len(file.records[i]) |->
           IF file.header[c] \in {OrderDate, ShipDate}
           THEN AsInputDate(file.records[i][c])
           ELSE file.records[i][c]]]]

\* C7: a second run on the output of the first, dates written back as
\* MM/DD/YYYY, succeeds and writes the same file.
C7_Idempotent ==
  pc = "done" =>
    LET second == CleanCsv(ReExpressed(outputFile)) IN
    second.error = "none" /\ second.file = outputFile

----------------------------------------------------------------------------
(* C8: the steps run in the order load, parse dates, trim, deduplicate,    *)
(* fill, persist, each at most once and one after the other; so the        *)
(* deduplicate step sees text cells already trimmed and dates already      *)
(* parsed, and the fill step sees trimmed column names.                    *)
StepNo(p) ==
  CASE p = "read_csv" -> 1
    [] p = "to_datetime_order" -> 2
    [] p = "to_datetime_ship" -> 3
    [] p = "strip_columns" -> 4
    [] p = "applymap" -> 5
    [] p = "drop_duplicates" -> 6
    [] p = "fillna" -> 7
    [] p = "to_csv" -> 8
    [] p = "print" -> 9
    [] p = "done" -> 10
    [] p = "failed" -> 11

C8_OneStepForward ==
  pc' # pc => (pc # "done" /\ pc # "failed" /\
               (pc' = "failed" \/ StepNo(pc') = StepNo(pc) + 1))

C8_Normalized ==
  /\ pc = "drop_duplicates" =>
       \A i \in DOMAIN df.data : \A j \in DOMAIN df.data[i] :
         /\ df.data[i][j].kind = "text" => IsTrimmed(df.data[i][j].text)
         /\ df.columns[j] \in {OrderDate, ShipDate} =>
              df.data[i][j].kind \in {"date", "missing"}
  /\ pc = "fillna" =>
       \A j \in 1..Len(df.columns) : IsTrimmed(df.columns[j])

\* C8: each step is followed by the next one or by failure, and the
\* deduplicate and fill steps see normalized values and names.
C8_StepsInOrder == [] C8_Normalized /\ [][C8_OneStepForward]_vars

\* The deduplicate step about to run on a table that had a padded text and
\* a date to parse.
C8_Witness ==
  /\ pc = "drop_duplicates"
  /\ \E i \in InRows : In[i][4] = <<" ", "W">> /\ In[i][1] = Jan02
  /\ \E i \in DOMAIN df.data : df.data[i][4] = Text(<<"W">>)

----------------------------------------------------------------------------
(* C9: the confirmation is printed exactly once and only after the output  *)
(* file is written; a run that fails prints none, and a failed run stays   *)
(* failed.                                                                 *)
C9_Printed ==
  /\ Len(stdout) <= 1
  /\ stdout # <<>> => (pc = "done" /\ outputFile.exists /\ outputFile = ToCsv(df))
  /\ pc = "done" => stdout = <<ConfirmationMessage>>
  /\ pc = "failed" => stdout = <<>>
  /\ err # "none" <=> pc = "failed"

C9_FailedForGood == pc = "failed" => (pc' = "failed" /\ stdout' = <<>>)

\* C9: one confirmation, printed after the write; none in a failed run,
\* which takes no further step.
C9_ConfirmationOnceAfterWrite == [] C9_Printed /\ [][C9_FailedForGood]_vars

\* A run that failed at the write.
C9_Witness == pc = "failed" /\ err = "OSError" /\ stdout = <<>>

----------------------------------------------------------------------------
(* C10: the parse step looks the date columns up by their names as loaded: *)
(* whitespace around the name of a date column fails the run at the parse  *)
(* step with nothing written; whitespace around Sales, Quantity, Discount  *)
(* or Profit fails no run, and those columns are still filled.             *)
HeaderNames == { inputFile.header[c] : c \in InColumns }

DateNamePadded == ~({OrderDate, ShipDate} \subseteq HeaderNames)

\* What can fail a run: no input file, a date column not found under its
\* exact name, a date cell that does not parse, an output path that is not
\* writable.
FailureExplained ==
  \/ err = "FileNotFoundError" /\ ~inputFile.exists
  \/ err = "KeyError" /\ DateNamePadded
  \/ err = "ValueError" /\ \E i \in InRows : \E c \in DateColumns :
                            In[i][c] # <<>> /\ ~Strptime(In[i][c]).ok
  \/ err = "OSError" /\ outputFile = NoFile

\* C10: a padded date column name stops the run at the parse step; a
\* padded name of a fill column explains no failure and is still filled.
C10_NamesLookedUpAsLoaded ==
  /\ (inputFile.exists /\ DateNamePadded) => StoppedAtParse
  /\ pc = "failed" => FailureExplained
  /\ pc = "done" =>
       \A c \in InColumns :
         (inputFile.header[c] # Strip(inputFile.header[c])
            /\ Strip(inputFile.header[c]) \in FillColumns) =>
           \A k \in OutRows :
             outputFile.records[k][c] =
               (IF In[Origin(k)][c] = <<>> THEN <<"0">> ELSE In[Origin(k)][c])

\* A run failed by a padded date column name, no cell being at fault.
C10_Witness ==
  /\ pc = "failed"
  /\ err = "KeyError"
  /\ inputFile.header[1] = <<" ">> \o OrderDate
  /\ InRows # {}
  /\ \A i \in InRows : \A c \in DateColumns : Strptime(In[i][c]).ok

====
